---- MODULE Spec2Model ----
(***************************************************************************)
(* sealed-test: the #[sealed_test(...)] attribute macro.                   *)
(*                                                                         *)
(* The model follows one test function through the macro and the run:      *)
(*   parse    impl Parse for SealedTestAttributes   (derive/attributes.rs) *)
(*   expand   sealed_test + the SealedTest builder  (derive/lib.rs, gen.rs)*)
(*   run      the generated statements, executed in the child process that *)
(*            rusty_fork_test! spawns for the test                         *)
(*                                                                         *)
(* A string is a tuple of its '/'-separated components (<<"tests","foo">>  *)
(* is "tests/foo"), so that PathBuf::file_name can be computed.  An Option *)
(* is a sequence of length 0 (None) or 1 (Some).                           *)
(***************************************************************************)
EXTENDS Integers, Sequences, FiniteSets, TLC

\* ------------------------------------------------------------------ bounds
\* most tokens inside the brackets of a free-form `env` or `files` value
MaxList == 3
\* longest `files` list plus longest `env` list of a generated attribute
MaxItems == 2
\* most statements in a generated test body
MaxBody == 2
\* most `key = value` entries of a free-form attribute stream
MaxEntries == 2

\* ------------------------------------------------------------------ tokens
\* A token of the attribute's TokenStream: t its kind, s its text, c the tokens
\* inside a delimited group.
Tok(t, s, c) == [t |-> t, s |-> s, c |-> c]
Id(k) == Tok("ident", <<k>>, <<>>)
EqTok == Tok("=", <<>>, <<>>)
Comma == Tok(",", <<>>, <<>>)
Str(p) == Tok("str", p, <<>>)
IntLit == Tok("int", <<"5">>, <<>>)
Call(f) == Tok("call", <<f>>, <<>>)
Bracket(c) == Tok("bracket", <<>>, c)
Paren(c) == Tok("paren", <<>>, c)
Brace(cmds) == Tok("brace", cmds, <<>>)

None == <<>>
Some(x) == <<x>>

\* the keys the match of Parse::parse has an arm for
ValidKeys == {"files", "env", "before", "after", "cmd_before", "cmd_after"}
\* the keys the panic message of the fallback arm tells the user to use
ListedKeys == {"files", "env", "setup", "teardown"}

\* ------------------------------------------------------------------ parser
\* SealedTestAttributes { files: vec![], env: vec![], before: None, ... }
EmptyAttributes ==
    [files |-> <<>>, env |-> <<>>, before |-> None, after |-> None,
     cmd_before |-> None, cmd_after |-> None]

NoError == [kind |-> "none", key |-> "", listed |-> {}]
SyntaxError(k) == [kind |-> "syntax", key |-> k, listed |-> {}]
UnknownAttribute(k) == [kind |-> "unknown", key |-> k, listed |-> ListedKeys]

\* After an element of a bracketed list:
\*   if !content.peek(,) && !content.is_empty() { content.parse::<,>()? }
\*   else if !content.is_empty()                { content.parse::<,>()? }
\* "err" when a token other than a comma follows, else the content left.
AfterElement(c) ==
    IF c # <<>> /\ c[1].t # ","
    THEN [ok |-> FALSE, left |-> c]
    ELSE IF c # <<>>
         THEN [ok |-> TRUE, left |-> Tail(c)]
         ELSE [ok |-> TRUE, left |-> c]

\* What a buffer holds after parse::<LitStr>() returned Err: LitStr is parsed
\* as a literal and then matched against Lit::Str, so a literal of another
\* kind is consumed; any other token stays.
LitStrLeft(c) == IF c # <<>> /\ c[1].t = "int" THEN Tail(c) ELSE c

\* parse_files: while let Ok(file) = content.parse::<LitStr>() { push; ... }
RECURSIVE FilesLoop(_, _)
FilesLoop(content, files) ==
    IF content # <<>> /\ content[1].t = "str"
    THEN LET sep == AfterElement(Tail(content))
         IN IF sep.ok
            THEN FilesLoop(sep.left, Append(files, content[1].s))
            ELSE [ok |-> FALSE, val |-> files, left |-> sep.left]
    ELSE [ok |-> TRUE, val |-> files, left |-> LitStrLeft(content)]

\* impl Parse for EnvVar, on the content of one parenthesized group.
\* left: what the group's buffer still holds when it is dropped.
ParseEnvVar(c) ==
    IF c = <<>> \/ c[1].t # "str"
    THEN [ok |-> FALSE, val |-> [name |-> <<>>, value |-> <<>>],
          left |-> LitStrLeft(c)]
    ELSE IF Len(c) < 2 \/ c[2].t # ","
    THEN [ok |-> FALSE, val |-> [name |-> <<>>, value |-> <<>>], left |-> Tail(c)]
    ELSE IF Len(c) < 3 \/ c[3].t # "str"
    THEN [ok |-> FALSE, val |-> [name |-> <<>>, value |-> <<>>],
          left |-> LitStrLeft(SubSeq(c, 3, Len(c)))]
    ELSE [ok |-> TRUE, val |-> [name |-> c[1].s, value |-> c[3].s],
          left |-> SubSeq(c, 4, Len(c))]

\* parse_env: while let Ok(env_var) = content.parse::<EnvVar>() { push; ... }
\* parenthesized! steps over the group before its content is parsed, so a
\* group whose content fails to parse is consumed and ends the loop.
\* unexp: some group's buffer was dropped with tokens left in it.
RECURSIVE EnvLoop(_, _, _)
EnvLoop(content, vars, unexp) ==
    IF content # <<>> /\ content[1].t = "paren"
    THEN LET v == ParseEnvVar(content[1].c)
             u == unexp \/ v.left # <<>>
             sep == AfterElement(Tail(content))
         IN IF ~v.ok
            THEN [ok |-> TRUE, val |-> vars, left |-> Tail(content), unexp |-> u]
            ELSE IF sep.ok
            THEN EnvLoop(sep.left, Append(vars, v.val), u)
            ELSE [ok |-> FALSE, val |-> vars, left |-> sep.left, unexp |-> u]
    ELSE [ok |-> TRUE, val |-> vars, left |-> content, unexp |-> unexp]

\* The tokens input.parse::<Expr>() accepts as the start of an expression; the
\* model takes an expression to be one token.
ExprStart == {"call", "ident", "str", "int", "bracket", "paren", "brace"}

\* the match of Parse::parse with a `files` arm that starts from a fresh struct
ParseValueFilesReset(k, r, attrs) ==
    LET fail(e) == [ok |-> FALSE, attrs |-> attrs, err |-> e, unexp |-> FALSE]
        done(a, u) == [ok |-> TRUE, attrs |-> a, err |-> NoError, unexp |-> u]
    IN CASE k = "files" ->
              IF r = <<>> \/ r[1].t # "bracket" THEN fail(SyntaxError(k))
              ELSE LET f == FilesLoop(r[1].c, <<>>)
                   IN IF f.ok
                      THEN done([EmptyAttributes EXCEPT !.files = f.val], f.left # <<>>)
                      ELSE fail(SyntaxError(k))
         [] k = "env" ->
              IF r = <<>> \/ r[1].t # "bracket" THEN fail(SyntaxError(k))
              ELSE LET e == EnvLoop(r[1].c, <<>>, FALSE)
                   IN IF e.ok
                      THEN done([attrs EXCEPT !.env = e.val],
                                e.unexp \/ e.left # <<>>)
                      ELSE fail(SyntaxError(k))
         [] k = "before" ->
              IF r = <<>> \/ r[1].t \notin ExprStart THEN fail(SyntaxError(k))
              ELSE done([attrs EXCEPT !.before = Some(r[1])], FALSE)
         [] k = "after" ->
              IF r = <<>> \/ r[1].t \notin ExprStart THEN fail(SyntaxError(k))
              ELSE done([attrs EXCEPT !.after = Some(r[1])], FALSE)
         [] k = "cmd_before" ->
              IF r = <<>> \/ r[1].t # "brace" THEN fail(SyntaxError(k))
              ELSE done([attrs EXCEPT !.cmd_before = Some(r[1].s)], FALSE)
         [] k = "cmd_after" ->
              IF r = <<>> \/ r[1].t # "brace" THEN fail(SyntaxError(k))
              ELSE done([attrs EXCEPT !.cmd_after = Some(r[1].s)], FALSE)
         [] OTHER -> fail(UnknownAttribute(k))

\* The value of one entry, for the key `k`, parsed from the stream `r` that
\* follows the `=`: the match of Parse::parse.
\*   ok    the arm returned Ok (attrs updated, one token consumed)
\*   err   the error the arm returned or panicked with
\*   unexp a nested buffer was dropped with tokens left in it
ParseValue(k, r, attrs) ==
    LET fail(e) == [ok |-> FALSE, attrs |-> attrs, err |-> e, unexp |-> FALSE]
        done(a, u) == [ok |-> TRUE, attrs |-> a, err |-> NoError, unexp |-> u]
    IN CASE k = "files" ->
              IF r = <<>> \/ r[1].t # "bracket" THEN fail(SyntaxError(k))
              ELSE LET f == FilesLoop(r[1].c, <<>>)
                   IN IF f.ok
                      THEN done([attrs EXCEPT !.files = f.val], f.left # <<>>)
                      ELSE fail(SyntaxError(k))
         [] k = "env" ->
              IF r = <<>> \/ r[1].t # "bracket" THEN fail(SyntaxError(k))
              ELSE LET e == EnvLoop(r[1].c, <<>>, FALSE)
                   IN IF e.ok
                      THEN done([attrs EXCEPT !.env = e.val],
                                e.unexp \/ e.left # <<>>)
                      ELSE fail(SyntaxError(k))
         [] k = "before" ->
              IF r = <<>> \/ r[1].t \notin ExprStart THEN fail(SyntaxError(k))
              ELSE done([attrs EXCEPT !.before = Some(r[1])], FALSE)
         [] k = "after" ->
              IF r = <<>> \/ r[1].t \notin ExprStart THEN fail(SyntaxError(k))
              ELSE done([attrs EXCEPT !.after = Some(r[1])], FALSE)
         [] k = "cmd_before" ->
              IF r = <<>> \/ r[1].t # "brace" THEN fail(SyntaxError(k))
              ELSE done([attrs EXCEPT !.cmd_before = Some(r[1].s)], FALSE)
         [] k = "cmd_after" ->
              IF r = <<>> \/ r[1].t # "brace" THEN fail(SyntaxError(k))
              ELSE done([attrs EXCEPT !.cmd_after = Some(r[1].s)], FALSE)
         [] OTHER -> fail(UnknownAttribute(k))

\* a loop that leaves the comma after an entry where it is
SkipCommaNever(r) == r

\* if input.peek(Token!(,)) { input.parse::<Token!(,)>()?; }
SkipComma(r) == IF r # <<>> /\ r[1].t = "," THEN Tail(r) ELSE r

\* ------------------------------------------------------------------ builder
\* A statement of the generated function: k its kind, a and b its arguments.
Stmt(k, a, b) == [k |-> k, a |-> a, b |-> b]

\* SealedTest::new: the three statements every generated test starts with.
new ==
    [stmt |-> << Stmt("alloc", <<>>, <<>>),
                 Stmt("chdir", <<>>, <<>>),
                 Stmt("crate_dir", <<"CARGO_MANIFEST_DIR">>, <<>>) >>]

\* SealedTest::build
build(self) == self.stmt

\* with_expr pushing a statement for an expression that is not given
with_expr_always(self, expr) ==
    [self EXCEPT !.stmt =
        Append(self.stmt, IF expr # None THEN Stmt("expr", expr[1].s, <<expr[1].t>>)
                          ELSE Stmt("expr", <<>>, <<>>))]

\* SealedTest::with_expr: `#expr;` when the expression is given.
with_expr(self, expr) ==
    IF expr # None
    THEN [self EXCEPT !.stmt = Append(self.stmt, Stmt("expr", expr[1].s, <<expr[1].t>>))]
    ELSE self

\* with_test putting the statements of the test in front of the others
with_test_prepend(self, test_stmt) == [self EXCEPT !.stmt = test_stmt \o self.stmt]

\* SealedTest::with_test: self.stmt.extend(test_stmt)
with_test(self, test_stmt) == [self EXCEPT !.stmt = self.stmt \o test_stmt]

\* a destination named after the first component of the path
FileNameFirst(path) ==
    IF path = <<>> \/ path[Len(path)] = ".." THEN None ELSE Some(path[1])

\* PathBuf::file_name: the final component, None for an empty path and for one
\* that ends in `..`.
FileName(path) ==
    IF path = <<>> \/ path[Len(path)] = ".." THEN None ELSE Some(path[Len(path)])

\* SealedTest::with_files: one copy block per file, its destination named
\* after the file's final component.
RECURSIVE with_files(_, _)
with_files(self, files) ==
    IF files = <<>> THEN self
    ELSE with_files(
           [self EXCEPT !.stmt =
               Append(self.stmt, Stmt("copy", files[1], FileName(files[1])))],
           Tail(files))

\* with_env pushing the pairs last to first
RECURSIVE with_env_reversed(_, _)
with_env_reversed(self, env) ==
    IF env = <<>> THEN self
    ELSE LET r == with_env_reversed(self, Tail(env))
         IN [r EXCEPT !.stmt = Append(r.stmt, Stmt("setenv", env[1].name, env[1].value))]

\* SealedTest::with_env: one std::env::set_var per pair.
RECURSIVE with_env(_, _)
with_env(self, env) ==
    IF env = <<>> THEN self
    ELSE with_env(
           [self EXCEPT !.stmt =
               Append(self.stmt, Stmt("setenv", env[1].name, env[1].value))],
           Tail(env))

\* SealedTest::with_cmd_before: the command block, run through cmd_lib's
\* run_cmd! and unwrapped, when the block is given.
with_cmd_before(self, cmd) ==
    IF cmd # None
    THEN [self EXCEPT !.stmt = Append(self.stmt, Stmt("cmd", cmd[1], <<>>))]
    ELSE self

\* sealed_test with the `env` step ahead of the `files` step
sealed_test_env_first(args, input) ==
    build(with_cmd_before(with_expr(with_test(with_expr(with_cmd_before(
        with_files(with_env(new, args.env), args.files),
        args.cmd_before), args.before), input), args.after), args.cmd_after))

\* sealed_test with cmd_after applied where cmd_before is
sealed_test_cmd_after_early(args, input) ==
    build(with_expr(with_test(with_expr(with_cmd_before(with_cmd_before(
        with_env(with_files(new, args.files), args.env),
        args.cmd_before), args.cmd_after), args.before), input), args.after))

\* sealed_test with the body ahead of `before`
sealed_test_body_early(args, input) ==
    build(with_cmd_before(with_expr(with_expr(with_test(with_cmd_before(
        with_env(with_files(new, args.files), args.env),
        args.cmd_before), input), args.before), args.after), args.cmd_after))

\* sealed_test: the builder chain that produces the statements of the test.
sealed_test(args, input) ==
    build(
      with_cmd_before(
        with_expr(
          with_test(
            with_expr(
              with_cmd_before(
                with_env(
                  with_files(new, args.files),
                  args.env),
                args.cmd_before),
              args.before),
            input),
          args.after),
        args.cmd_after))

\* target.file_name().unwrap() panics while the macro expands.
ExpansionPanics(args) ==
    \E i \in 1..Len(args.files) : FileName(args.files[i]) = None

\* ------------------------------------------------------------------ run time
Tests == {1, 2}
\* process 0 is the test runner; rusty_fork_test! runs test t in a child
\* process of its own.
Parent == 0
Procs == {Parent} \cup Tests
\* a plain #[test]: the test runs on a thread of the runner's process
ProcOfRunner(t) == Parent
ProcOf(t) == t

\* the environment of a process: a set of name/value pairs, one per name
SetVar(env, n, v) == {e \in env : e.n # n} \cup {[n |-> n, v |-> v]}
\* std::env::var: the values of n, none when it is not set
Var(env, n) == {e.v : e \in {x \in env : x.n = n}}

CrateDir == <<"crate">>
ParentEnv == {[n |-> <<"CARGO_MANIFEST_DIR">>, v |-> CrateDir]}
ParentCwd == CrateDir
TempDirOf(t) == <<"tmp", IF t = 1 THEN "t1" ELSE "t2">>

\* the crate's tree, as the tests of the crate use it
ProjectFiles == {<<"tests", "foo">>, <<"tests", "bar">>, <<"tests", "baz", "buzz">>}
ProjectDirs == {<<"tests">>, <<"tests", "baz">>}

IsPrefix(p, q) == Len(p) <= Len(q) /\ SubSeq(q, 1, Len(p)) = p
Rel(p, q) == SubSeq(q, Len(p) + 1, Len(q))

EmptyDir == [files |-> {}, dirs |-> {}]
Exists(wd, p) == p \in wd.files \/ p \in wd.dirs

\* std::fs::copy(src, dest): src must be a file, dest must not be a directory.
FileCopy(wd, src, dest) ==
    IF src \in ProjectFiles /\ dest \notin wd.dirs
    THEN [ok |-> TRUE, wd |-> [wd EXCEPT !.files = @ \cup {dest}]]
    ELSE [ok |-> FALSE, wd |-> wd]

\* fs_extra::dir::copy(src, dest, copy_inside): into dest when it does not
\* exist, else into dest/<name of src>; a file already there is an error.
DirCopy(wd, src, dest) ==
    LET to == IF Exists(wd, dest) THEN Append(dest, src[Len(src)]) ELSE dest
        dirs == {to \o Rel(src, d) : d \in {x \in ProjectDirs : IsPrefix(src, x)}}
        files == {to \o Rel(src, f) : f \in {x \in ProjectFiles : IsPrefix(src, x)}}
    IN IF files \cap wd.files = {} /\ dirs \cap wd.files = {}
       THEN [ok |-> TRUE,
             wd |-> [files |-> wd.files \cup files, dirs |-> wd.dirs \cup dirs]]
       ELSE [ok |-> FALSE, wd |-> wd]

\* the copy block of with_files: src = crate_dir.join(file),
\* dest = current_dir().join(target)
CopyBlock(wd, file, target) ==
    IF file \in ProjectDirs
    THEN DirCopy(wd, file, target)
    ELSE FileCopy(wd, file, target)

\* ------------------------------------------------------------------ inputs
SeqsUpTo(S, n) == UNION {[1..k -> S] : k \in 0..n}

RECURSIVE Flatten(_)
Flatten(ss) == IF ss = <<>> THEN <<>> ELSE ss[1] \o Flatten(Tail(ss))

\* the elements of a bracketed list, each followed by a comma but the last
RECURSIVE Listed(_)
Listed(toks) ==
    IF Len(toks) <= 1 THEN toks
    ELSE <<toks[1], Comma>> \o Listed(Tail(toks))

Pair(n, v) == Paren(<<Str(<<n>>), Comma, Str(<<v>>)>>)
FilesValue(fs) == Bracket(Listed([i \in 1..Len(fs) |-> Str(fs[i])]))
EnvValue(es) == Bracket(Listed([i \in 1..Len(es) |-> Pair(es[i][1], es[i][2])]))
Entry(k, v) == <<Id(k), EqTok, v>>

\* the values the attributes of the crate's tests and documentation use
FilePaths == {<<"tests", "foo">>, <<"tests", "baz">>}
EnvPairs == {<<"VAR", "foo">>, <<"VAR", "bar">>, <<"HOME", "la maison">>}
SetupExpr == Call("setup()")
TeardownExpr == Call("teardown()")
CmdBefore == Brace(<<"git init", "git commit --allow-empty -m first">>)
CmdAfter == Brace(<<"git --no-pager log">>)

\* an entry, or nothing when the field is not given
Opt(k, v) == {<<>>, Entry(k, v) \o <<Comma>>}
NonEmpty(k, v, list) == IF list = <<>> THEN <<>> ELSE Entry(k, v) \o <<Comma>>

\* Attributes with every combination of fields, written in the order
\* files, env, cmd_before, before, after, cmd_after.
GenInputs ==
    UNION {
      {NonEmpty("files", FilesValue(fs), fs) \o NonEmpty("env", EnvValue(es), es)
          \o cb \o b \o a \o ca :
          es \in SeqsUpTo(EnvPairs, MaxItems - Len(fs)),
          cb \in Opt("cmd_before", CmdBefore), b \in Opt("before", SetupExpr),
          a \in Opt("after", TeardownExpr), ca \in Opt("cmd_after", CmdAfter)} :
      fs \in SeqsUpTo(FilePaths, MaxItems)}

\* Entries of a free-form attribute stream: well-formed ones for every key,
\* empty lists, an unknown key, a path with no file name, a missing `=`.
EntryPool ==
    { Entry("files", FilesValue(<<>>)),
      Entry("env", EnvValue(<<>>)),
      Entry("files", FilesValue(<< <<"tests", "foo">> >>)),
      Entry("files", FilesValue(<< <<"tests", "..">> >>)),
      Entry("env", EnvValue(<< <<"VAR", "foo">> >>)),
      Entry("env", EnvValue(<< <<"VAR", "bar">>, <<"HOME", "la maison">> >>)),
      Entry("before", SetupExpr),
      Entry("after", TeardownExpr),
      Entry("cmd_before", CmdBefore),
      Entry("cmd_after", CmdAfter),
      Entry("setup", SetupExpr),
      <<Id("files"), FilesValue(<< <<"tests", "foo">> >>)>> }

FreeEntries == EntryPool \cup {e \o <<Comma>> : e \in EntryPool}
FreeInputs == {Flatten(es) : es \in SeqsUpTo(FreeEntries, MaxEntries)}

\* statements of a test body: an opaque statement, std::env::set_var, and
\* `let var = std::env::var(..)?; assert_eq!(var, ..)`
Op(n) == Stmt("op", <<n>>, <<>>)
SetEnv(n, v) == Stmt("setenv", <<n>>, <<v>>)
AssertVar(n, v) == Stmt("assert_var", <<n>>, <<v>>)
Bodies == {[i \in 1..k |-> Op(IF i = 1 THEN "s1" ELSE IF i = 2 THEN "s2" ELSE "s3")] :
              k \in 0..MaxBody}
FooBody == <<SetEnv("VAR", "foo"), AssertVar("VAR", "foo")>>
BarBody == <<SetEnv("VAR", "bar"), AssertVar("VAR", "bar")>>

\* ------------------------------------------------------------------ state
VARIABLES
    tests,    \* the test functions of the crate under test
    attr,     \* per test: the tokens of its #[sealed_test(...)] attribute
    phase,    \* per test: idle, parse, parsed, compiled, compile_error, running, done
    rest,     \* per test: the attribute tokens not parsed yet
    attrs,    \* per test: the SealedTestAttributes being filled
    unexp,    \* per test: a nested parse buffer was dropped with tokens left
    perr,     \* per test: the error the macro failed with
    body,     \* per test: the statements of the function the attribute is on
    stmts,    \* per test: the statements of the generated function
    pc,       \* per test: the statement to execute next
    ctl,      \* per test: run, panic (unwinding), ret_ok, ret_err (returning)
    tempdir,  \* per test: none, allocated, released
    wd,       \* per test: the files and directories in its temporary directory
    log,      \* per test: the statements executed, each with its outcome
    report,   \* per test: none, passed, failed
    penv,     \* per process: its environment variables
    pcwd      \* per process: its current working directory

vars == <<tests, attr, phase, rest, attrs, unexp, perr, body, stmts, pc, ctl, tempdir,
          wd, log, report, penv, pcwd>>

parseVars == <<rest, attrs, unexp, perr>>
runVars == <<pc, ctl, tempdir, wd, log, penv, pcwd>>

InitWith(ts, input, bd) ==
    /\ tests = ts
    /\ attr = input
    /\ phase = [t \in Tests |-> IF t \in ts THEN "parse" ELSE "idle"]
    /\ rest = input
    /\ attrs = [t \in Tests |-> EmptyAttributes]
    /\ unexp = [t \in Tests |-> FALSE]
    /\ perr = [t \in Tests |-> NoError]
    /\ body = bd
    /\ stmts = [t \in Tests |-> <<>>]
    /\ pc = [t \in Tests |-> 1]
    /\ ctl = [t \in Tests |-> "run"]
    /\ tempdir = [t \in Tests |-> "none"]
    /\ wd = [t \in Tests |-> EmptyDir]
    /\ log = [t \in Tests |-> <<>>]
    /\ report = [t \in Tests |-> "none"]
    /\ penv = [p \in Procs |-> IF p = Parent THEN ParentEnv ELSE {}]
    /\ pcwd = [p \in Procs |-> IF p = Parent THEN ParentCwd ELSE <<>>]

\* one test, its attribute any combination of well-formed fields
Init ==
    \E i \in GenInputs, b \in Bodies :
        InitWith({1}, [t \in Tests |-> IF t = 1 THEN i ELSE <<>>],
                      [t \in Tests |-> IF t = 1 THEN b ELSE <<>>])

\* one test, its attribute any stream of a few entries
InitParse ==
    \E i \in FreeInputs :
        InitWith({1}, [t \in Tests |-> IF t = 1 THEN i ELSE <<>>],
                      [t \in Tests |-> IF t = 1 THEN <<Op("s1")>> ELSE <<>>])

\* the two tests `foo` and `bar` of the crate, run by one test runner; each
\* sets VAR in its body or through its `env` attribute
ConcTest(v) ==
    { [attr |-> <<>>, body |-> <<SetEnv("VAR", v), AssertVar("VAR", v)>>],
      [attr |-> Entry("env", EnvValue(<< <<"VAR", v>> >>)),
       body |-> <<AssertVar("VAR", v)>>] }
InitConc ==
    \E c1 \in ConcTest("foo"), c2 \in ConcTest("bar") :
        InitWith({1, 2}, [t \in Tests |-> IF t = 1 THEN c1.attr ELSE c2.attr],
                         [t \in Tests |-> IF t = 1 THEN c1.body ELSE c2.body])

\* The entries of an attribute that gives every key at most once, written in
\* the order files, env, cmd_before, before, after, cmd_after.
KeyEntries ==
    {<<f, e, cb, b, a, ca>> :
        f \in {<<>>, Entry("files", FilesValue(<< <<"tests", "foo">>, <<"tests", "baz">> >>))},
        e \in {<<>>, Entry("env", EnvValue(<< <<"VAR", "foo">>, <<"HOME", "la maison">> >>))},
        cb \in {<<>>, Entry("cmd_before", CmdBefore)},
        b \in {<<>>, Entry("before", SetupExpr)},
        a \in {<<>>, Entry("after", TeardownExpr)},
        ca \in {<<>>, Entry("cmd_after", CmdAfter)}}
\* the entries of es that are given, each followed by a comma
Given(es) ==
    LET g == SelectSeq(es, LAMBDA x : x # <<>>)
    IN [i \in 1..Len(g) |-> g[i] \o <<Comma>>]
\* two tests whose attributes give the same entries, the second in any order
InitOrder ==
    \E es \in KeyEntries :
        \E p \in Permutations(1..Len(Given(es))) :
            InitWith({1, 2},
                     [t \in Tests |-> IF t = 1 THEN Flatten(Given(es))
                                      ELSE Flatten([i \in 1..Len(Given(es)) |-> Given(es)[p[i]]])],
                     [t \in Tests |-> <<Op("s1")>>])

\* the entries of the pool that parse and expand
WellFormedEntries ==
    {e \in EntryPool :
        /\ e[1].s[1] \in ValidKeys /\ e[2] = EqTok
        /\ e # Entry("files", FilesValue(<< <<"tests", "..">> >>))}
\* the entries es, with a comma after those whose index is in m
Delimited(es, m) ==
    Flatten([i \in 1..Len(es) |-> es[i] \o (IF i \in m THEN <<Comma>> ELSE <<>>)])
\* two tests whose attributes are the same entries, the first written with no
\* comma, the second with a comma after any of them
InitComma ==
    \E es \in SeqsUpTo(WellFormedEntries, MaxEntries) :
        \E m \in SUBSET (1..Len(es)) :
            InitWith({1, 2},
                     [t \in Tests |-> IF t = 1 THEN Delimited(es, {}) ELSE Delimited(es, m)],
                     [t \in Tests |-> <<Op("s1")>>])

\* What can stand inside the brackets of `env`: a pair, groups of one and of
\* three strings, a group whose value is no string, a comma.
EnvElems ==
    { Pair("VAR", "foo"),
      Paren(<<Str(<<"FOO">>)>>),
      Paren(<<Str(<<"A">>), Comma, Str(<<"B">>), Comma, Str(<<"C">>)>>),
      Paren(<<Str(<<"FOO">>), Comma, IntLit>>),
      Comma }
\* What can stand inside the brackets of `files`: a string, a literal that
\* is no string, an identifier, a comma.
FilesElems == {Str(<<"tests", "foo">>), IntLit, Id("foo"), Comma}
\* one test, its attribute one `env` or `files` entry with any tokens inside
\* the brackets
InitSyntax ==
    \E i \in {Entry("env", Bracket(c)) : c \in SeqsUpTo(EnvElems, MaxList)}
           \cup {Entry("files", Bracket(c)) : c \in SeqsUpTo(FilesElems, MaxList)} :
        InitWith({1}, [t \in Tests |-> IF t = 1 THEN i ELSE <<>>],
                      [t \in Tests |-> IF t = 1 THEN <<Op("s1")>> ELSE <<>>])

\* ------------------------------------------------------------------ macro
\* One turn of `while let Ok(ident) = input.parse::<syn::Ident>()`: the `=`,
\* the value for the key, the optional comma.
ParseIter(t) ==
    /\ phase[t] = "parse"
    /\ rest[t] # <<>> /\ rest[t][1].t = "ident"
    /\ LET k == rest[t][1].s[1]
           r1 == Tail(rest[t])
       IN IF r1 = <<>> \/ r1[1].t # "="
          THEN /\ phase' = [phase EXCEPT ![t] = "compile_error"]
               /\ perr' = [perr EXCEPT ![t] = SyntaxError(k)]
               /\ rest' = [rest EXCEPT ![t] = r1]
               /\ UNCHANGED <<attrs, unexp>>
          ELSE LET v == ParseValue(k, Tail(r1), attrs[t])
               IN IF v.ok
                  THEN /\ attrs' = [attrs EXCEPT ![t] = v.attrs]
                       /\ unexp' = [unexp EXCEPT ![t] = @ \/ v.unexp]
                       /\ rest' = [rest EXCEPT ![t] = SkipComma(Tail(Tail(r1)))]
                       /\ UNCHANGED <<phase, perr>>
                  ELSE /\ phase' = [phase EXCEPT ![t] = "compile_error"]
                       /\ perr' = [perr EXCEPT ![t] = v.err]
                       /\ rest' = [rest EXCEPT ![t] = Tail(r1)]
                       /\ UNCHANGED <<attrs, unexp>>
    /\ UNCHANGED <<tests, attr, body, stmts, report>>
    /\ UNCHANGED runVars

\* The loop ends at the first token that is no identifier and parse returns
\* Ok(attributes); parse_macro_input! then rejects a stream with tokens left,
\* at the top level or in a nested buffer.
ParseEnd(t) ==
    /\ phase[t] = "parse"
    /\ (IF rest[t] = <<>> THEN TRUE ELSE rest[t][1].t # "ident")
    /\ IF unexp[t] \/ rest[t] # <<>>
       THEN /\ phase' = [phase EXCEPT ![t] = "compile_error"]
            /\ perr' = [perr EXCEPT ![t] = [kind |-> "unexpected", key |-> "", listed |-> {}]]
       ELSE /\ phase' = [phase EXCEPT ![t] = "parsed"]
            /\ perr' = perr
    /\ UNCHANGED <<tests, attr, rest, attrs, unexp, body, stmts, report>>
    /\ UNCHANGED runVars

\* sealed_test, after the attribute is parsed: the statements of the function
\* are replaced by the builder's.
Expand(t) ==
    /\ phase[t] = "parsed"
    /\ IF ExpansionPanics(attrs[t])
       THEN /\ phase' = [phase EXCEPT ![t] = "compile_error"]
            /\ perr' = [perr EXCEPT ![t] = [kind |-> "panic", key |-> "files", listed |-> {}]]
            /\ stmts' = stmts
       ELSE /\ phase' = [phase EXCEPT ![t] = "compiled"]
            /\ stmts' = [stmts EXCEPT ![t] = sealed_test(attrs[t], body[t])]
            /\ perr' = perr
    /\ UNCHANGED <<tests, attr, rest, attrs, unexp, body, report>>
    /\ UNCHANGED runVars

\* ------------------------------------------------------------------ run
\* rusty_fork_test!: the test runs in a child process, which starts with a
\* copy of the runner's environment and working directory.  The crate is
\* compiled as a whole: no test runs unless every attribute expanded.
Spawn(t) ==
    /\ phase[t] = "compiled"
    /\ \A u \in tests : phase[u] \in {"compiled", "running", "done"}
    /\ phase' = [phase EXCEPT ![t] = "running"]
    /\ penv' = [penv EXCEPT ![ProcOf(t)] = penv[Parent]]
    /\ pcwd' = [pcwd EXCEPT ![ProcOf(t)] = pcwd[Parent]]
    /\ UNCHANGED <<tests, attr, body, stmts, report, pc, ctl, tempdir, wd, log>>
    /\ UNCHANGED parseVars

\* What executing statement s of test t can do: o the outcome (ok, panic,
\* ret_ok, ret_err), then the process's environment and directory, the
\* temporary directory's state and content, and the value an assertion read.
\* A copy can always fail on I/O.  `#expr;` discards the expression's value:
\* a call finishes (whatever it evaluates to), panics, or returns Err from
\* the function through `?`.
Results(t, s) ==
    LET env == penv[ProcOf(t)]
        ok == [o |-> "ok", env |-> env, cwd |-> pcwd[ProcOf(t)],
               dir |-> tempdir[t], wd |-> wd[t], r |-> {}]
        panic == [ok EXCEPT !.o = "panic"]
    IN CASE s.k = "alloc" -> {[ok EXCEPT !.dir = "allocated"], panic}
         [] s.k = "chdir" -> {[ok EXCEPT !.cwd = TempDirOf(t)], panic}
         [] s.k = "crate_dir" -> IF Var(env, s.a) = {} THEN {panic} ELSE {ok}
         [] s.k = "copy" ->
              LET c == CopyBlock(wd[t], s.a, s.b)
              IN (IF c.ok THEN {[ok EXCEPT !.wd = c.wd]} ELSE {}) \cup {panic}
         [] s.k = "setenv" -> {[ok EXCEPT !.env = SetVar(env, s.a, s.b)]}
         [] s.k = "cmd" -> {ok, panic}
         [] s.k = "expr" ->
              IF s.b # <<"call">> THEN {ok}
              ELSE {IF s.a = <<"setup()">>
                    THEN [ok EXCEPT !.env = SetVar(env, <<"BEFORE">>, <<"ok">>)]
                    ELSE ok,
                    panic, [ok EXCEPT !.o = "ret_err"]}
         [] s.k = "op" ->
              {ok, panic, [ok EXCEPT !.o = "ret_ok"], [ok EXCEPT !.o = "ret_err"]}
         [] s.k = "assert_var" ->
              LET v == Var(env, s.a)
              IN IF v = {} THEN {[ok EXCEPT !.o = "ret_err"]}
                 ELSE IF v = {s.b} THEN {[ok EXCEPT !.r = v]}
                 ELSE {[ok EXCEPT !.o = "panic", !.r = v]}

Event(s, res) == [k |-> s.k, a |-> s.a, b |-> s.b, o |-> res.o, r |-> res.r]

\* The next statement of the generated function runs to its end, panics or
\* returns from the function.
ExecStmt(t) ==
    /\ phase[t] = "running"
    /\ ctl[t] = "run"
    /\ pc[t] <= Len(stmts[t])
    /\ \E res \in Results(t, stmts[t][pc[t]]) :
          /\ penv' = [penv EXCEPT ![ProcOf(t)] = res.env]
          /\ pcwd' = [pcwd EXCEPT ![ProcOf(t)] = res.cwd]
          /\ tempdir' = [tempdir EXCEPT ![t] = res.dir]
          /\ wd' = [wd EXCEPT ![t] = res.wd]
          /\ log' = [log EXCEPT ![t] = Append(@, Event(stmts[t][pc[t]], res))]
          /\ ctl' = [ctl EXCEPT ![t] = IF res.o = "ok" THEN "run" ELSE res.o]
          /\ pc' = [pc EXCEPT ![t] = IF res.o = "ok" THEN @ + 1 ELSE @]
    /\ UNCHANGED <<tests, attr, phase, body, stmts, report>>
    /\ UNCHANGED parseVars

\* a temporary directory that is kept when the function is left
ScopeExitKeeps(dir) == dir

\* `let temp_dir = TempDir::new()` lives until the function is left, by its
\* end, a return or a panic's unwinding: TempDir's Drop removes the directory.
ScopeExit(dir) == IF dir = "allocated" THEN "released" ELSE dir

\* a runner that fails a test only when it panics
OutcomePanicOnly(c) == IF c = "panic" THEN "failed" ELSE "passed"

\* what the runner reports for a test that left its function in state c
Outcome(c) == IF c \in {"panic", "ret_err"} THEN "failed" ELSE "passed"

\* The function is left and the child process ends.
Exit(t) ==
    /\ phase[t] = "running"
    /\ (ctl[t] # "run" \/ pc[t] > Len(stmts[t]))
    /\ tempdir' = [tempdir EXCEPT ![t] = ScopeExit(@)]
    /\ wd' = [wd EXCEPT ![t] = IF tempdir[t] = "allocated" THEN EmptyDir ELSE @]
    /\ report' = [report EXCEPT ![t] = Outcome(ctl[t])]
    /\ phase' = [phase EXCEPT ![t] = "done"]
    /\ UNCHANGED <<tests, attr, body, stmts, pc, ctl, log, penv, pcwd>>
    /\ UNCHANGED parseVars

Next ==
    \/ \E t \in tests : ParseIter(t)
    \/ \E t \in tests : ParseEnd(t)
    \/ \E t \in tests : Expand(t)
    \/ \E t \in tests : Spawn(t)
    \/ \E t \in tests : ExecStmt(t)
    \/ \E t \in tests : Exit(t)

Spec == Init /\ [][Next]_vars
SpecParse == InitParse /\ [][Next]_vars
SpecConc == InitConc /\ [][Next]_vars

\* the macro alone: what the compiler runs for each attribute
NextMacro ==
    \/ \E t \in tests : ParseIter(t)
    \/ \E t \in tests : ParseEnd(t)
    \/ \E t \in tests : Expand(t)
SpecOrder == InitOrder /\ [][NextMacro]_vars
SpecSyntax == InitSyntax /\ [][Next]_vars
SpecComma == InitComma /\ [][NextMacro]_vars

\* ------------------------------------------------------------------ claims
Started(t) == phase[t] \in {"running", "done"}
\* the statements executed so far, without their outcomes
Ran(t) == [i \in 1..Len(log[t]) |-> Stmt(log[t][i].k, log[t][i].a, log[t][i].b)]
IsCmd(e, cmd) == cmd # None /\ e.k = "cmd" /\ e.a = cmd[1]
IsExpr(e, expr) == expr # None /\ e.k = "expr" /\ e.a = expr[1].s
IsBody(e) == e.k = "op"
Failed(e) == e.o \in {"panic", "ret_err"}
\* the hooks of test t can be told apart in its log
DistinctHooks(t) ==
    /\ attrs[t].cmd_before = None \/ attrs[t].cmd_before # attrs[t].cmd_after
    /\ attrs[t].before = None \/ attrs[t].before # attrs[t].after

\* Steps 1 to 5 for the configuration of test t, then the first statement of
\* its body.
C1_Setup(t) ==
    LET a == attrs[t]
    IN << Stmt("alloc", <<>>, <<>>), Stmt("chdir", <<>>, <<>>),
          Stmt("crate_dir", <<"CARGO_MANIFEST_DIR">>, <<>>) >>
       \o [i \in 1..Len(a.files) |->
             Stmt("copy", a.files[i], <<a.files[i][Len(a.files[i])]>>)]
       \o [i \in 1..Len(a.env) |-> Stmt("setenv", a.env[i].name, a.env[i].value)]
       \o (IF a.cmd_before = None THEN <<>> ELSE <<Stmt("cmd", a.cmd_before[1], <<>>)>>)
       \o (IF a.before = None THEN <<>>
           ELSE <<Stmt("expr", a.before[1].s, <<a.before[1].t>>)>>)
       \o (IF body[t] = <<>> THEN <<>> ELSE <<body[t][1]>>)

\* C1: whatever fields are configured, a run allocates the directory and
\* enters it, then copies every file in declaration order, then sets every
\* variable in declaration order, then runs cmd_before, then before, and only
\* then the first statement of the body; a statement that did not finish is
\* the last one executed.
C1_SetupOrder ==
    \A t \in tests :
        Started(t) =>
            /\ IsPrefix(Ran(t), C1_Setup(t)) \/ IsPrefix(C1_Setup(t), Ran(t))
            /\ \A i \in 1..Len(log[t]) : log[t][i].o # "ok" => i = Len(log[t])

C1_Witness ==
    \E t \in tests :
        /\ Started(t)
        /\ attrs[t].files # <<>> /\ attrs[t].env # <<>>
        /\ attrs[t].cmd_before # None /\ attrs[t].before # None
        /\ body[t] # <<>>
        /\ Ran(t) = C1_Setup(t)

\* the number of body statements among the first n executed
RECURSIVE BodyCount(_, _)
BodyCount(l, n) ==
    IF n = 0 THEN 0 ELSE BodyCount(l, n - 1) + (IF IsBody(l[n]) THEN 1 ELSE 0)
BodyFinishedBefore(t, i) ==
    /\ BodyCount(log[t], i - 1) = Len(body[t])
    /\ \A j \in 1..(i - 1) : log[t][j].o = "ok"
SetupBefore(t, i) ==
    /\ attrs[t].cmd_before # None =>
          \E j \in 1..(i - 1) : IsCmd(log[t][j], attrs[t].cmd_before)
    /\ attrs[t].before # None =>
          \E j \in 1..(i - 1) : IsExpr(log[t][j], attrs[t].before)

\* C2: `after` is evaluated only once every statement of the body has
\* finished, cmd_after only once `after` has finished, and cmd_after never
\* runs before the body (not at the cmd_before position).
C2_AfterHooksFollowBody ==
    \A t \in tests :
        (Started(t) /\ DistinctHooks(t)) =>
            \A i \in 1..Len(log[t]) :
                /\ IsExpr(log[t][i], attrs[t].after) =>
                      BodyFinishedBefore(t, i) /\ SetupBefore(t, i)
                /\ IsCmd(log[t][i], attrs[t].cmd_after) =>
                      /\ BodyFinishedBefore(t, i) /\ SetupBefore(t, i)
                      /\ attrs[t].after # None =>
                            \E j \in 1..(i - 1) :
                                IsExpr(log[t][j], attrs[t].after) /\ log[t][j].o = "ok"

C2_Witness ==
    \E t \in tests :
        /\ phase[t] = "done" /\ DistinctHooks(t)
        /\ attrs[t].cmd_before # None /\ attrs[t].after # None
        /\ Len(body[t]) = MaxBody
        /\ Len(log[t]) >= 2
        /\ IsExpr(log[t][Len(log[t]) - 1], attrs[t].after)
        /\ IsCmd(log[t][Len(log[t])], attrs[t].cmd_after)

BodyStarted(t) == \E i \in 1..Len(log[t]) : IsBody(log[t][i])
BodyFailed(t) == \E i \in 1..Len(log[t]) : IsBody(log[t][i]) /\ Failed(log[t][i])
AfterRan(t) == \E i \in 1..Len(log[t]) : IsExpr(log[t][i], attrs[t].after)
CmdAfterRan(t) == \E i \in 1..Len(log[t]) : IsCmd(log[t][i], attrs[t].cmd_after)

\* C3: once the body has started, `after` and cmd_after run whatever the
\* body's outcome: a finished run whose body started has executed every
\* configured one of them.
C3_TeardownHooksAlwaysRun ==
    \A t \in tests :
        (phase[t] = "done" /\ DistinctHooks(t) /\ BodyStarted(t)) =>
            /\ attrs[t].after # None => AfterRan(t)
            /\ attrs[t].cmd_after # None => CmdAfterRan(t)

Allocated(t) == \E i \in 1..Len(log[t]) : log[t][i].k = "alloc" /\ log[t][i].o = "ok"

\* C4: a run that allocated its temporary directory has released it when it
\* ends, however it ends; no finished run still holds its directory.
C4_DirectoryReleased ==
    \A t \in tests :
        phase[t] = "done" =>
            /\ tempdir[t] # "allocated"
            /\ Allocated(t) => tempdir[t] = "released" /\ wd[t] = EmptyDir

C4_Witness ==
    \E t \in tests :
        /\ phase[t] = "done" /\ tempdir[t] = "released"
        /\ BodyFailed(t) /\ ctl[t] = "panic"

IsSetupStep(t, e) ==
    e.k = "copy" \/ IsCmd(e, attrs[t].cmd_before) \/ IsExpr(e, attrs[t].before)
SetupFailed(t) ==
    \E i \in 1..Len(log[t]) : IsSetupStep(t, log[t][i]) /\ Failed(log[t][i])

IsAfterStep(t, e) == IsExpr(e, attrs[t].after) \/ IsCmd(e, attrs[t].cmd_after)

OwnSets(t, n, i) == {j \in 1..(i - 1) : log[t][j].k = "setenv" /\ log[t][j].a = n}
Latest(S) == CHOOSE j \in S : \A k \in S : k <= j

\* C7: with two tests running concurrently, under every interleaving, each
\* test's process holds for every variable the test has set the value the test
\* itself set last, each assertion reads that value, no test's process is in
\* the other's directory, and the runner's environment and directory are
\* unchanged.
C7_Isolation ==
    /\ penv[Parent] = ParentEnv
    /\ pcwd[Parent] = ParentCwd
    /\ \A t \in tests :
          /\ \A u \in tests \ {t} : pcwd[ProcOf(t)] # TempDirOf(u)
          /\ \A i \in 1..Len(log[t]) :
                (log[t][i].k = "assert_var" /\ OwnSets(t, log[t][i].a, i) # {}) =>
                    /\ log[t][i].r = {log[t][Latest(OwnSets(t, log[t][i].a, i))].b}
                    /\ log[t][i].o = "ok"
          /\ phase[t] = "running" =>
                \A n \in {log[t][j].a : j \in {x \in 1..Len(log[t]) : log[t][x].k = "setenv"}} :
                    Var(penv[ProcOf(t)], n) =
                        {log[t][Latest(OwnSets(t, n, Len(log[t]) + 1))].b}

C7_Witness ==
    /\ tests = {1, 2}
    /\ phase[1] = "running" /\ phase[2] = "running"
    /\ OwnSets(2, <<"VAR">>, Len(log[2]) + 1) # {}
    /\ \A i \in 1..Len(log[2]) : log[2][i].k # "assert_var"
    /\ \E i \in 1..Len(log[1]) : log[1][i].k = "assert_var" /\ log[1][i].r = {<<"foo">>}
    /\ Var(penv[ProcOf(2)], <<"VAR">>) = {<<"bar">>}

\* how often `k =` is written in the attribute of test t
KeyCount(t, k) ==
    Cardinality({i \in 1..(Len(attr[t]) - 1) :
        attr[t][i].t = "ident" /\ attr[t][i].s = <<k>> /\ attr[t][i + 1].t = "="})

\* C8: an attribute that gives one of the six keys more than once does not
\* parse: the macro fails with a duplicate-attribute error naming the key and
\* no SealedTestAttributes is produced.
C8_DuplicateKeyRejected ==
    \A t \in tests :
        (phase[t] # "parse" /\ \E k \in ValidKeys : KeyCount(t, k) >= 2
           /\ \A i \in 1..Len(attr[t]) : attr[t][i].t = "ident" => attr[t][i].s[1] \in ValidKeys) =>
            /\ phase[t] = "compile_error"
            /\ perr[t].kind = "duplicate"

\* C9: a key outside the six recognized ones makes the macro fail at that
\* key, with an error that names the key and lists exactly the six valid keys.
C9_UnknownKeyListsValidKeys ==
    \A t \in tests :
        perr[t].kind = "unknown" =>
            /\ phase[t] = "compile_error"
            /\ perr[t].key \notin ValidKeys
            /\ perr[t].listed = ValidKeys

\* the pairs written in the `env` entry of the attribute of test t
C10_Declared(t) ==
    LET at == {i \in 1..Len(attr[t]) : attr[t][i].t = "ident" /\ attr[t][i].s = <<"env">>}
    IN IF at = {} THEN <<>>
       ELSE LET groups == SelectSeq(attr[t][(CHOOSE i \in at : TRUE) + 2].c,
                                    LAMBDA x : x.t = "paren")
            IN [j \in 1..Len(groups) |->
                  [name |-> groups[j].c[1].s, value |-> groups[j].c[3].s]]
\* the value of the last pair for the name of pair i
LastValue(env, i) ==
    env[Latest({j \in 1..Len(env) : env[j].name = env[i].name})].value
\* every setup step of test t has run and nothing else
AtBodyStart(t) ==
    /\ phase[t] = "running" /\ ctl[t] = "run"
    /\ Len(log[t]) = 3 + Len(attrs[t].files) + Len(attrs[t].env)
                       + Len(attrs[t].cmd_before) + Len(attrs[t].before)

\* C10: the parsed `env` is the list of pairs as written, in order and with
\* repeated names kept; when the body starts, every configured name is set
\* and holds the value of its last pair.
C10_EnvLastWriteWins ==
    \A t \in tests :
        /\ phase[t] \notin {"parse", "compile_error"} => attrs[t].env = C10_Declared(t)
        /\ AtBodyStart(t) =>
              \A i \in 1..Len(attrs[t].env) :
                  Var(penv[ProcOf(t)], attrs[t].env[i].name) =
                      {LastValue(attrs[t].env, i)}

C10_Witness ==
    \E t \in tests :
        /\ AtBodyStart(t)
        /\ Len(attrs[t].env) = 2
        /\ attrs[t].env[1].name = attrs[t].env[2].name
        /\ attrs[t].env[1].value # attrs[t].env[2].value
        /\ Var(penv[ProcOf(t)], attrs[t].env[1].name) = {attrs[t].env[2].value}

\* the paths written in the `files` entry of the attribute of test t
C11_Declared(t) ==
    LET at == {i \in 1..Len(attr[t]) : attr[t][i].t = "ident" /\ attr[t][i].s = <<"files">>}
    IN IF at = {} THEN <<>>
       ELSE LET elems == SelectSeq(attr[t][(CHOOSE i \in at : TRUE) + 2].c,
                                   LAMBDA x : x.t = "str")
            IN [j \in 1..Len(elems) |-> elems[j].s]
\* every copy of test t has finished and the run goes on
C11_CopiesDone(t) ==
    /\ phase[t] = "running"
    /\ Len(log[t]) >= Len(new.stmt) + Len(attrs[t].files)
    /\ \A i \in 1..(Len(new.stmt) + Len(attrs[t].files)) : log[t][i].o = "ok"
\* directory w holds the source src under the name of its final component: a
\* file as that file, a directory with everything the project has below it
C11_Holds(w, src) ==
    LET name == <<src[Len(src)]>>
    IN IF src \in ProjectDirs
       THEN /\ \A d \in ProjectDirs : IsPrefix(src, d) => name \o Rel(src, d) \in w.dirs
            /\ \A f \in ProjectFiles : IsPrefix(src, f) => name \o Rel(src, f) \in w.files
       ELSE src \in ProjectFiles /\ name \in w.files

\* C11: the parsed `files` is the list of paths as written; the copies run in
\* that order, right after the directory is entered, each from the path to
\* the name of its final component; once they have all finished the working
\* directory holds every configured source under that name, a directory
\* with its content (tests/foo as foo, tests/baz as baz and baz/buzz).
C11_FilesCopied ==
    \A t \in tests :
        /\ phase[t] \notin {"parse", "compile_error"} => attrs[t].files = C11_Declared(t)
        /\ Started(t) =>
              \A i \in 1..Len(attrs[t].files) :
                  Len(log[t]) >= Len(new.stmt) + i =>
                      /\ log[t][Len(new.stmt) + i].k = "copy"
                      /\ log[t][Len(new.stmt) + i].a = attrs[t].files[i]
                      /\ log[t][Len(new.stmt) + i].b =
                            <<attrs[t].files[i][Len(attrs[t].files[i])]>>
        /\ C11_CopiesDone(t) =>
              \A i \in 1..Len(attrs[t].files) : C11_Holds(wd[t], attrs[t].files[i])

C11_Witness ==
    \E t \in tests :
        /\ C11_CopiesDone(t)
        /\ attrs[t].files = << <<"tests", "foo">>, <<"tests", "baz">> >>
        /\ wd[t].files = {<<"foo">>, <<"baz", "buzz">>}
        /\ wd[t].dirs = {<<"baz">>}

\* the number of operations the configuration a asks for
C12_Operations(a) ==
    Len(a.files) + Len(a.env) + Len(a.cmd_before) + Len(a.before)
        + Len(a.after) + Len(a.cmd_after)
\* the attribute of test t has nothing but `files = []` and `env = []`
C12_OnlyEmptyLists(t) ==
    /\ \A i \in 1..Len(attr[t]) :
          \/ attr[t][i] \in {Id("files"), Id("env"), EqTok, Comma, Bracket(<<>>)}
    /\ \A i \in 1..Len(attr[t]) :
          attr[t][i].t = "ident" => i + 2 <= Len(attr[t]) /\ attr[t][i + 1] = EqTok
C12_Kinds(t) == {stmts[t][i].k : i \in 1..Len(stmts[t])}

\* C12: the empty attribute, and one with only empty lists, parses to the
\* empty configuration, and its function is the three statements that make
\* and enter the directory followed by the body: no copy, no set_var, no
\* hook, no command; its run executes nothing else and releases the
\* directory.  In every generated function each list element and each given
\* hook or command is one statement, and an absent field or an empty list
\* is none.
C12_EmptyContributesNothing ==
    \A t \in tests :
        /\ (phase[t] # "parse" /\ C12_OnlyEmptyLists(t)) =>
              /\ phase[t] # "compile_error"
              /\ attrs[t] = EmptyAttributes
        /\ phase[t] \in {"compiled", "running", "done"} =>
              /\ Len(stmts[t]) =
                    Len(new.stmt) + C12_Operations(attrs[t]) + Len(body[t])
              /\ attrs[t].files = <<>> => "copy" \notin C12_Kinds(t)
              /\ attrs[t].env = <<>> => "setenv" \notin C12_Kinds(t)
              /\ (attrs[t].before = None /\ attrs[t].after = None) =>
                    "expr" \notin C12_Kinds(t)
              /\ (attrs[t].cmd_before = None /\ attrs[t].cmd_after = None) =>
                    "cmd" \notin C12_Kinds(t)
              /\ attrs[t] = EmptyAttributes => stmts[t] = new.stmt \o body[t]
        /\ (Started(t) /\ attrs[t] = EmptyAttributes) =>
              /\ IsPrefix(Ran(t), new.stmt \o body[t])
              /\ (phase[t] = "done" /\ Allocated(t)) => tempdir[t] = "released"

C12_Witness ==
    \E t \in tests :
        /\ attr[t] = <<>>
        /\ phase[t] = "done" /\ report[t] = "passed"
        /\ body[t] # <<>>
        /\ Ran(t) = new.stmt \o body[t]
        /\ tempdir[t] = "released"

\* the `key = value` entries of the attribute of test t
C13_Entries(t) ==
    {<<attr[t][i].s[1], attr[t][i + 2]>> :
        i \in {j \in 1..(Len(attr[t]) - 2) : attr[t][j].t = "ident" /\ attr[t][j + 1] = EqTok}}
\* the keys of the attribute of test t, in the order written
C13_Keys(t) ==
    LET ids == SelectSeq(attr[t], LAMBDA x : x.t = "ident")
    IN [i \in 1..Len(ids) |-> ids[i].s[1]]
\* tests t and u give the same entries, each key once
C13_SameEntries(t, u) ==
    /\ C13_Entries(t) = C13_Entries(u)
    /\ Len(C13_Keys(t)) = Cardinality(C13_Entries(t))
    /\ Len(C13_Keys(u)) = Cardinality(C13_Entries(u))
    /\ \A k \in ValidKeys : KeyCount(t, k) <= 1 /\ KeyCount(u, k) <= 1

\* C13: two attributes that give the same entries, each key at most once, in
\* different key orders parse to the same SealedTestAttributes, and their
\* generated functions are the same statements in the same order.
C13_KeyOrderIrrelevant ==
    \A t, u \in tests :
        (phase[t] # "parse" /\ phase[u] # "parse" /\ C13_SameEntries(t, u)) =>
            /\ phase[t] # "compile_error" /\ phase[u] # "compile_error"
            /\ attrs[t] = attrs[u]
            /\ (phase[t] = "compiled" /\ phase[u] = "compiled") => stmts[t] = stmts[u]

\* the order of the keys of the test should_run_cmd against files first
C13_Witness ==
    /\ tests = {1, 2}
    /\ C13_SameEntries(1, 2)
    /\ C13_Keys(1) = <<"files", "env", "cmd_before", "before">>
    /\ C13_Keys(2) = <<"cmd_before", "before", "env", "files">>
    /\ phase[1] = "compiled" /\ phase[2] = "compiled"
    /\ stmts[2] = stmts[1]
    /\ [i \in 1..Len(stmts[2]) |-> stmts[2][i].k] =
          <<"alloc", "chdir", "crate_dir", "copy", "copy", "setenv", "setenv",
            "cmd", "expr", "op">>

\* the attribute of test t has one of the errors of the configuration: a key
\* given twice, a key that is none of the six, a key with no `=` after it
C14_Erroneous(t) ==
    \/ \E k \in ValidKeys : KeyCount(t, k) >= 2
    \/ \E i \in 1..Len(attr[t]) :
          /\ attr[t][i].t = "ident"
          /\ \/ attr[t][i].s[1] \notin ValidKeys
             \/ i = Len(attr[t])
             \/ (IF i < Len(attr[t]) THEN attr[t][i + 1] # EqTok ELSE FALSE)
\* test t has had no effect: no process, no directory, no statement, no report
C14_NoSideEffect(t) ==
    /\ ~Started(t)
    /\ tempdir[t] = "none" /\ wd[t] = EmptyDir
    /\ log[t] = <<>> /\ report[t] = "none"
    /\ penv[ProcOf(t)] = {} /\ pcwd[ProcOf(t)] = <<>>

\* C14: an attribute with a configuration error (a malformed entry, an
\* unknown key, a key given twice) is rejected when it is expanded: its test
\* never gets a child process or a working directory and runs no statement,
\* and a rejected attribute has had no effect.
C14_ConfigErrorsBeforeSpawn ==
    \A t \in tests :
        /\ C14_Erroneous(t) => C14_NoSideEffect(t)
        /\ phase[t] = "compile_error" => C14_NoSideEffect(t)

\* a group of exactly two string literals
C15_WellFormedGroup(g) ==
    /\ g.t = "paren" /\ Len(g.c) = Len(<<Str(<<>>), Comma, Str(<<>>)>>)
    /\ g.c[1].t = "str" /\ g.c[2] = Comma /\ g.c[3].t = "str"
\* the attribute of test t is one `env` entry with a group that is not two
\* string literals, or one `files` entry with an element that is no string
\* literal
C15_Malformed(t) ==
    /\ Len(attr[t]) = Len(Entry("env", Bracket(<<>>)))
    /\ attr[t][2] = EqTok /\ attr[t][3].t = "bracket"
    /\ LET c == attr[t][3].c
       IN \/ /\ attr[t][1] = Id("env")
             /\ \E i \in 1..Len(c) : c[i].t = "paren" /\ ~C15_WellFormedGroup(c[i])
          \/ /\ attr[t][1] = Id("files")
             /\ \E i \in 1..Len(c) : c[i].t \notin {"str", ","}

\* C15: an `env` value with a group that is not exactly two string literals
\* (one, three, or one that is no string) and a `files` value with an element
\* that is no string literal do not parse: the macro fails with a syntax
\* error, and no SealedTestAttributes that holds only the entries before the
\* malformed one is returned.
C15_MalformedValueRejected ==
    \A t \in tests :
        (C15_Malformed(t) /\ phase[t] # "parse") =>
            /\ phase[t] = "compile_error"
            /\ perr[t].kind \in {"syntax", "unexpected"}

\* some statement of the body of test t ended with outcome o
C16_BodyEnded(t, o) == \E i \in 1..Len(log[t]) : IsBody(log[t][i]) /\ log[t][i].o = o

\* C16: a run whose body returned Err (through `?` or as its value) is
\* reported as a run whose body panicked is: failed.  No finished run with
\* such a body is reported passed.
C16_ErrResultIsFailure ==
    \A t \in tests :
        phase[t] = "done" =>
            /\ C16_BodyEnded(t, "ret_err") => report[t] = "failed"
            /\ C16_BodyEnded(t, "panic") => report[t] = "failed"
            /\ report[t] = "passed" =>
                  ~C16_BodyEnded(t, "ret_err") /\ ~C16_BodyEnded(t, "panic")

C16_Witness ==
    \E t \in tests :
        /\ phase[t] = "done"
        /\ attrs[t] = EmptyAttributes
        /\ Len(body[t]) = MaxBody
        /\ log[t][Len(log[t])] = [k |-> "op", a |-> body[t][1].a, b |-> <<>>,
                                   o |-> "ret_err", r |-> {}]
        /\ report[t] = "failed"

\* the attribute of test t without its commas
C17_Undelimited(t) == SelectSeq(attr[t], LAMBDA x : x # Comma)
\* every comma of the attribute of test t follows the value of an entry, and
\* every key is one of the six
C17_CommasAfterEntries(t) ==
    /\ \A i \in 1..Len(attr[t]) :
          attr[t][i] = Comma =>
              (IF i > 1 THEN attr[t][i - 1].t \notin {"ident", "=", ","} ELSE FALSE)
    /\ \A i \in 1..Len(attr[t]) : attr[t][i].t = "ident" => attr[t][i].s[1] \in ValidKeys

\* C17: attributes made of the same well-formed entries in the same order,
\* each entry followed by a comma or not, the last one included, all parse,
\* to the same SealedTestAttributes, and expand to the same function.
C17_DelimiterOptional ==
    \A t, u \in tests :
        (/\ C17_Undelimited(t) = C17_Undelimited(u)
         /\ C17_CommasAfterEntries(t) /\ C17_CommasAfterEntries(u)) =>
            /\ (phase[t] # "parse" /\ phase[u] # "parse") =>
                  /\ phase[t] # "compile_error" /\ phase[u] # "compile_error"
                  /\ attrs[t] = attrs[u]
            /\ (phase[t] = "compiled" /\ phase[u] = "compiled") => stmts[t] = stmts[u]

\* `files = [..] env = [..]` against `files = [..], env = [..],`
C17_Witness ==
    /\ tests = {1, 2}
    /\ Comma \notin {attr[1][i] : i \in 1..Len(attr[1])}
    /\ attr[2] = Entry("files", FilesValue(<< <<"tests", "foo">> >>)) \o <<Comma>>
                 \o Entry("env", EnvValue(<< <<"VAR", "foo">> >>)) \o <<Comma>>
    /\ C17_Undelimited(2) = attr[1]
    /\ phase[1] = "compiled" /\ phase[2] = "compiled"
    /\ stmts[1] = stmts[2]
    /\ attrs[1].files # <<>> /\ attrs[1].env # <<>>

\* the number of statements the builder pushes before those of the body
C18_SetupLen(t) ==
    Len(new.stmt) + Len(attrs[t].files) + Len(attrs[t].env)
        + Len(attrs[t].cmd_before) + Len(attrs[t].before)
\* the statements for `after` and cmd_after
C18_AfterStmts(t) ==
    (IF attrs[t].after = None THEN <<>>
     ELSE <<Stmt("expr", attrs[t].after[1].s, <<attrs[t].after[1].t>>)>>)
    \o (IF attrs[t].cmd_after = None THEN <<>>
        ELSE <<Stmt("cmd", attrs[t].cmd_after[1], <<>>)>>)
\* the builder after each step of the chain of sealed_test, for test t
C18_Chain(t) ==
    LET a == attrs[t]
        s1 == with_files(new, a.files)
        s2 == with_env(s1, a.env)
        s3 == with_cmd_before(s2, a.cmd_before)
        s4 == with_expr(s3, a.before)
        s5 == with_test(s4, body[t])
        s6 == with_expr(s5, a.after)
        s7 == with_cmd_before(s6, a.cmd_after)
    IN <<new, s1, s2, s3, s4, s5, s6, s7>>

\* C18: in every generated function the statements of the body stand once,
\* together and in their order, after the statements of every setup step and
\* before those of `after` and cmd_after; each builder step keeps what was
\* pushed before it and only appends; with neither `after` nor cmd_after the
\* last statement of the body is the last of the function, and a run that
\* gets to it is reported with its outcome.
C18_BodySplicedOnce ==
    \A t \in tests :
        /\ phase[t] \in {"compiled", "running", "done"} =>
              LET n == C18_SetupLen(t)
                  c == C18_Chain(t)
              IN /\ SubSeq(stmts[t], n + 1, n + Len(body[t])) = body[t]
                 /\ \A j \in 1..Len(body[t]) :
                       {i \in 1..Len(stmts[t]) : stmts[t][i] = body[t][j]} = {n + j}
                 /\ \A i \in 1..Len(stmts[t]) :
                       IsBody(stmts[t][i]) <=> (n < i /\ i <= n + Len(body[t]))
                 /\ SubSeq(stmts[t], n + Len(body[t]) + 1, Len(stmts[t])) = C18_AfterStmts(t)
                 /\ \A i \in 1..(Len(c) - 1) : IsPrefix(c[i].stmt, c[i + 1].stmt)
                 /\ build(c[Len(c)]) = stmts[t]
                 /\ (attrs[t].after = None /\ attrs[t].cmd_after = None /\ body[t] # <<>>) =>
                       stmts[t][Len(stmts[t])] = body[t][Len(body[t])]
        /\ (/\ phase[t] = "done" /\ body[t] # <<>>
            /\ attrs[t].after = None /\ attrs[t].cmd_after = None
            /\ Len(log[t]) = Len(stmts[t])) =>
              /\ Ran(t) = stmts[t]
              /\ report[t] = (IF Failed(log[t][Len(log[t])]) THEN "failed" ELSE "passed")

C18_Witness ==
    \E t \in tests :
        /\ phase[t] = "done" /\ report[t] = "passed"
        /\ attrs[t].files # <<>> /\ attrs[t].env # <<>>
        /\ attrs[t].cmd_before # None /\ attrs[t].before # None
        /\ attrs[t].after = None /\ attrs[t].cmd_after = None
        /\ Len(body[t]) = MaxBody
        /\ Ran(t) = stmts[t]
        /\ log[t][Len(log[t])].a = body[t][Len(body[t])].a
        /\ log[t][Len(log[t])].o = "ret_ok"
====
